---- MODULE Spec2Model ----
(***************************************************************************)
(* Model of src/app.py: the law-faculty dashboard.  The file holds two     *)
(* revisions of the script: revision 1 (lines 1-61, module-level code) and *)
(* revision 2 (lines 64-335, load_data with cleaning, the plot_* functions *)
(* and main).  Each revision has its own st.cache_data-wrapped load_data.  *)
(*                                                                         *)
(* A string is a sequence of one-character strings; a cell of a DataFrame  *)
(* is a record [kind, s, n]: a string (kind "str", text s), a number (kind *)
(* "num", value n), a boolean (kind "bool", n 0 or 1) or the missing       *)
(* marker NaN (kind "nan").  A column is a record [dtype, cells]; a        *)
(* DataFrame is a function from the headers present to their columns (the  *)
(* empty DataFrame has no header).                                         *)
(***************************************************************************)
EXTENDS Integers, Sequences, FiniteSets, TLC

(* ---------------------------------------------------------------- bounds *)
\* longest text of a raw string cell
MaxLen == 2
\* rows of a table whose cells range over every string up to MaxLen
NRowsWide == 1
\* rows of a table whose cells range over the small palette
NRows == 3

(* ------------------------------------------------------- configuration  *)
URL == "https://raw.githubusercontent.com/intannajwa20/EC2024/refs/heads/main/law_faculty_data.csv"

Keys ==
  {"GENDER", "RANK", "DEPARTMENT", "EXPERIENCE", "ACADEMIC_YEAR", "SSC_GPA",
   "HSC_GPA", "COACHING", "HSC_MEDIUM", "EXPECTATION_RESOURCE",
   "EXPECTATION_ENVIRONMENT", "EXPECTATION_MET", "BEST_ASPECTS"}

\* the column registry: logical key -> literal header of the source file
COLUMNS ==
  [k \in Keys |->
     CASE k = "GENDER" -> "Gender"
       [] k = "RANK" -> "Faculty_Rank"
       [] k = "DEPARTMENT" -> "Department"
       [] k = "EXPERIENCE" -> "Years_of_Service"
       [] k = "ACADEMIC_YEAR" -> "Bachelor  Academic Year in EU"
       [] k = "SSC_GPA" -> "S.S.C (GPA)"
       [] k = "HSC_GPA" -> "H.S.C (GPA)"
       [] k = "COACHING" -> "Did you ever attend a Coaching center?"
       [] k = "HSC_MEDIUM" -> "H.S.C or Equivalent study medium"
       [] k = "EXPECTATION_RESOURCE" -> "Q3 [What was your expectation about the University as related to quality of resources?]"
       [] k = "EXPECTATION_ENVIRONMENT" -> "Q4 [What was your expectation about the University as related to quality of learning environment?]"
       [] k = "EXPECTATION_MET" -> "Q5 [To what extent your expectation was met?]"
       [] k = "BEST_ASPECTS" -> "Q6 [What are the best aspects of the program?]"]

\* COLUMNS.values()
Headers == {COLUMNS[k] : k \in Keys}

\* the keys of the numeric coercion loop, in its order
NumericKeys == <<"SSC_GPA", "HSC_GPA", "EXPERIENCE">>

(* ----------------------------------------------------------------- cells *)
NaN == [kind |-> "nan", s |-> <<>>, n |-> 0]
StrCell(s) == [kind |-> "str", s |-> s, n |-> 0]
NumCell(n) == [kind |-> "num", s |-> <<>>, n |-> n]
BoolCell(b) == [kind |-> "bool", s |-> <<>>, n |-> IF b THEN 1 ELSE 0]

\* the 'Unknown/Missing' literal: one symbol that is neither blank nor digit
Sentinel == <<"Unknown/Missing">>

IsSpace(c) == c = " "

Digits == {"0", "1", "2", "3", "4", "5", "6", "7", "8", "9"}

DigitVal(c) ==
  CASE c = "0" -> 0 [] c = "1" -> 1 [] c = "2" -> 2 [] c = "3" -> 3
    [] c = "4" -> 4 [] c = "5" -> 5 [] c = "6" -> 6 [] c = "7" -> 7
    [] c = "8" -> 8 [] c = "9" -> 9

DigitChar(d) ==
  CASE d = 0 -> "0" [] d = 1 -> "1" [] d = 2 -> "2" [] d = 3 -> "3"
    [] d = 4 -> "4" [] d = 5 -> "5" [] d = 6 -> "6" [] d = 7 -> "7"
    [] d = 8 -> "8" [] d = 9 -> "9"

(* ------------------------------------------------------ str.strip()      *)
RECURSIVE lstrip(_)
lstrip(s) ==
  IF s = <<>> THEN s
  ELSE IF IsSpace(Head(s)) THEN lstrip(Tail(s)) ELSE s

RECURSIVE rstrip(_)
rstrip(s) ==
  IF s = <<>> THEN s
  ELSE IF IsSpace(s[Len(s)]) THEN rstrip(SubSeq(s, 1, Len(s) - 1)) ELSE s

\* a strip that takes one leading blank only
strip_one_leading(s) ==
  IF s # <<>> /\ IsSpace(Head(s)) THEN Tail(s) ELSE s

\* str.strip(): leading and trailing whitespace removed
strip(s) == rstrip(lstrip(s))

\* Series.str.strip(): a cell that is no string gives NaN
str_strip(cells) ==
  [i \in DOMAIN cells |->
     IF cells[i].kind = "str" THEN StrCell(strip(cells[i].s)) ELSE NaN]

\* Series.replace('', np.nan)
replace_empty(cells) ==
  [i \in DOMAIN cells |-> IF cells[i] = StrCell(<<>>) THEN NaN ELSE cells[i]]

\* fillna that leaves the missing cells missing
fillna_noop(cells, v) == cells

\* Series.fillna(v)
fillna(cells, v) ==
  [i \in DOMAIN cells |-> IF cells[i].kind = "nan" THEN v ELSE cells[i]]

\* lib.infer_dtype(values, skipna=True) of an object column
infer_dtype(cells) ==
  IF \A i \in DOMAIN cells : cells[i].kind = "nan" THEN "empty"
  ELSE IF \A i \in DOMAIN cells : cells[i].kind \in {"str", "nan"} THEN "string"
  ELSE IF \A i \in DOMAIN cells : cells[i].kind \in {"bool", "nan"} THEN "boolean"
  ELSE "mixed"

\* Series.str: the accessor refuses a column whose values are no text
\* (an object column of booleans and missing values)
str_accessor(col) ==
  IF infer_dtype(col.cells) \in {"string", "empty", "mixed"} THEN "none"
  ELSE "AttributeError"

\* line 114: the string cleaning of one object column
clean_str_column(col) ==
  [dtype |-> "object",
   cells |-> fillna(replace_empty(str_strip(col.cells)), StrCell(Sentinel))]

(* ------------------------------------------------------ pd.to_numeric    *)
RECURSIVE digits_value(_, _)
digits_value(s, acc) ==
  IF s = <<>> THEN acc ELSE digits_value(Tail(s), 10 * acc + DigitVal(Head(s)))

\* whether the text is a decimal numeral
is_numeral(s) == s # <<>> /\ \A i \in DOMAIN s : s[i] \in Digits

\* coercion that turns unparsable text into zero
parse_cell_zero(c) ==
  IF c.kind = "str"
  THEN IF is_numeral(c.s) THEN NumCell(digits_value(c.s, 0)) ELSE NumCell(0)
  ELSE c

\* errors='coerce': text that is no numeral becomes NaN
parse_cell(c) ==
  IF c.kind = "str"
  THEN IF is_numeral(c.s) THEN NumCell(digits_value(c.s, 0)) ELSE NaN
  ELSE c

\* the dtype of a numeric result: int64 without a missing cell, else float64
numeric_dtype(cells) ==
  IF \E i \in DOMAIN cells : cells[i].kind = "nan" THEN "float64" ELSE "int64"

\* the column of the coerced cells
numeric_column(cells) == [dtype |-> numeric_dtype(cells), cells |-> cells]

\* pd.to_numeric(col, errors='coerce')
to_numeric(col) ==
  IF col.dtype # "object" THEN col
  ELSE numeric_column([i \in DOMAIN col.cells |-> parse_cell(col.cells[i])])

(* ------------------------------------------------- the cleaning pass     *)
\* lines 110-114: every registry column present and of dtype object; the
\* loop ends with the exception of the first column .str refuses
clean_strings(df) ==
  IF \E h \in Headers \cap DOMAIN df :
       df[h].dtype = "object" /\ str_accessor(df[h]) # "none"
  THEN [exc |-> "AttributeError", df |-> df]
  ELSE [exc |-> "none",
        df |-> [h \in DOMAIN df |->
                  IF h \in Headers /\ df[h].dtype = "object"
                  THEN clean_str_column(df[h]) ELSE df[h]]]

\* lines 117-119: the three designated columns, when present
coerce_numeric(df) ==
  [h \in DOMAIN df |->
     IF \E i \in DOMAIN NumericKeys : COLUMNS[NumericKeys[i]] = h
     THEN to_numeric(df[h]) ELSE df[h]]

\* lines 116-119 after the string loop: skipped when the loop raised
coerce_after(s) ==
  IF s.exc # "none" THEN s ELSE [exc |-> "none", df |-> coerce_numeric(s.df)]

\* lines 110-119: the cleaned table, or the exception that ended the pass
clean(df) == coerce_after(clean_strings(df))

(* ------------------------------------------------ DataFrame operations   *)
\* pd.DataFrame()
EmptyDataFrame == <<>>

\* len(df): the number of rows
NumRows(df) ==
  IF DOMAIN df = {} THEN 0 ELSE Len(df[CHOOSE h \in DOMAIN df : TRUE].cells)

\* a test for None in place of df.empty
is_none(df) == FALSE

\* df.empty: no column or no row
IsEmpty(df) == DOMAIN df = {} \/ NumRows(df) = 0

\* df.head(n)
head(df, n) ==
  [h \in DOMAIN df |->
     [dtype |-> df[h].dtype,
      cells |-> SubSeq(df[h].cells, 1, IF Len(df[h].cells) < n THEN Len(df[h].cells) ELSE n)]]

\* df.dropna(subset=[h])[h]: the cells of column h that are not missing
RECURSIVE dropna(_)
dropna(cells) ==
  IF cells = <<>> THEN <<>>
  ELSE IF Head(cells).kind = "nan" THEN dropna(Tail(cells))
       ELSE <<Head(cells)>> \o dropna(Tail(cells))

(* ------------------------------------------------------ astype(str)      *)
RECURSIVE num_digits(_)
num_digits(n) ==
  IF n < 10 THEN <<DigitChar(n)>>
  ELSE Append(num_digits(n \div 10), DigitChar(n % 10))

\* str(value) of one cell of a column of the given dtype
cell_str(c, dtype) ==
  CASE c.kind = "str" -> c
    [] c.kind = "nan" -> StrCell(<<"n", "a", "n">>)
    [] c.kind = "num" ->
         StrCell(IF dtype = "float64" THEN num_digits(c.n) \o <<".", "0">>
                 ELSE num_digits(c.n))

\* Series.astype(str)
astype_str(col) ==
  [dtype |-> "object",
   cells |-> [i \in DOMAIN col.cells |-> cell_str(col.cells[i], col.dtype)]]

(* ------------------------------------------------------ value_counts     *)
\* counting that keeps the missing cells as a category
RECURSIVE count_values_keepna(_, _)
count_values_keepna(cells, acc) ==
  IF cells = <<>> THEN acc
  ELSE LET c == Head(cells) IN
       IF \E i \in DOMAIN acc : acc[i].label = c
       THEN count_values_keepna(Tail(cells),
              [i \in DOMAIN acc |->
                 IF acc[i].label = c
                 THEN [label |-> c, count |-> acc[i].count + 1] ELSE acc[i]])
       ELSE count_values_keepna(Tail(cells), Append(acc, [label |-> c, count |-> 1]))

\* the counting pass of value_counts (dropna=True): one row per distinct
\* value that is not missing, in order of first appearance
RECURSIVE count_values(_, _)
count_values(cells, acc) ==
  IF cells = <<>> THEN acc
  ELSE LET c == Head(cells) IN
       IF c.kind = "nan" THEN count_values(Tail(cells), acc)
       ELSE IF \E i \in DOMAIN acc : acc[i].label = c
       THEN count_values(Tail(cells),
              [i \in DOMAIN acc |->
                 IF acc[i].label = c
                 THEN [label |-> c, count |-> acc[i].count + 1] ELSE acc[i]])
       ELSE count_values(Tail(cells), Append(acc, [label |-> c, count |-> 1]))

\* insertion into rows sorted by descending count, after the equal counts
RECURSIVE insert_by_count(_, _)
insert_by_count(rows, r) ==
  IF rows = <<>> THEN <<r>>
  ELSE IF Head(rows).count >= r.count
       THEN <<Head(rows)>> \o insert_by_count(Tail(rows), r)
       ELSE <<r>> \o rows

RECURSIVE sort_by_count(_, _)
sort_by_count(rows, acc) ==
  IF rows = <<>> THEN acc
  ELSE sort_by_count(Tail(rows), insert_by_count(acc, Head(rows)))

\* Series.value_counts(): counts, most frequent first
value_counts(cells) == sort_by_count(count_values(cells, <<>>), <<>>)

(* ------------------------------------------------------ sort_index       *)
\* the code point order of the characters that occur
CharRank(c) ==
  CASE c = " " -> 32 [] c = "." -> 46 [] c \in Digits -> 48 + DigitVal(c)
    [] c = "Unknown/Missing" -> 85 [] c = "a" -> 97 [] c = "n" -> 110
    [] c = "x" -> 120

RECURSIVE str_less(_, _)
str_less(s, t) ==
  IF t = <<>> THEN FALSE
  ELSE IF s = <<>> THEN TRUE
  ELSE IF Head(s) = Head(t) THEN str_less(Tail(s), Tail(t))
  ELSE CharRank(Head(s)) < CharRank(Head(t))

\* the order of two labels of one index (all text, or all numbers)
label_less(a, b) ==
  IF a.kind = "num" /\ b.kind = "num" THEN a.n < b.n ELSE str_less(a.s, b.s)

RECURSIVE insert_by_label(_, _)
insert_by_label(rows, r) ==
  IF rows = <<>> THEN <<r>>
  ELSE IF label_less(r.label, Head(rows).label)
       THEN <<r>> \o rows
       ELSE <<Head(rows)>> \o insert_by_label(Tail(rows), r)

RECURSIVE sort_index_acc(_, _)
sort_index_acc(rows, acc) ==
  IF rows = <<>> THEN acc
  ELSE sort_index_acc(Tail(rows), insert_by_label(acc, Head(rows)))

\* Series.sort_index(): rows by ascending label
sort_index(rows) == sort_index_acc(rows, <<>>)

(* ------------------------------------------------ page elements          *)
\* one Streamlit element: the function that emitted it, its kind, its text
\* (the parts of the f-string) and the data handed to it
El(by, el, text, data) == [by |-> by, el |-> el, text |-> text, data |-> data]

\* the result of a call: the elements it emitted and the exception it raised
Out(els) == [els |-> els, exc |-> "none"]
Raise(e) == [els |-> <<>>, exc |-> e]

\* df[h]: KeyError when the column is absent
getitem(df, h) ==
  IF h \in DOMAIN df THEN [exc |-> "none", col |-> df[h]]
  ELSE [exc |-> "KeyError", col |-> [dtype |-> "object", cells |-> <<>>]]

\* the chart of the counts of a column that was found
counts_chart_of(by, title, sorted, g) ==
  IF g.exc # "none" THEN Raise(g.exc)
  ELSE Out(<<El(by, "plotly_chart", <<title>>,
                IF sorted THEN sort_index(value_counts(g.col.cells))
                ELSE value_counts(g.col.cells))>>)

\* a chart of df[h].value_counts(), by label when sorted
counts_chart(by, title, df, h, sorted) ==
  counts_chart_of(by, title, sorted, getitem(df, h))

(* ------------------------------------------------ plot functions (rev 2) *)
\* the chart built without the presence check
plot_gender_distribution_unchecked(df) ==
  counts_chart("plot_gender_distribution", "1. Distribution of Faculty Gender",
               df, COLUMNS["GENDER"], FALSE)

plot_gender_distribution(df) ==
  LET gender_col == COLUMNS["GENDER"] IN
  IF gender_col \notin DOMAIN df
  THEN Out(<<El("plot_gender_distribution", "warning",
                <<"Column '", gender_col, "' not found.">>, <<>>)>>)
  ELSE counts_chart("plot_gender_distribution", "1. Distribution of Faculty Gender",
                    df, gender_col, FALSE)

plot_rank_distribution(df) ==
  LET rank_col == COLUMNS["RANK"] IN
  IF rank_col \notin DOMAIN df
  THEN Out(<<El("plot_rank_distribution", "warning",
                <<"Column '", rank_col, "' not found.">>, <<>>)>>)
  ELSE counts_chart("plot_rank_distribution", "2. Count of Faculty by Academic Rank",
                    df, rank_col, FALSE)

plot_academic_year_distribution(df) ==
  LET year_col == COLUMNS["ACADEMIC_YEAR"] IN
  IF year_col \notin DOMAIN df
  THEN Out(<<El("plot_academic_year_distribution", "warning",
                <<"Column '", year_col, "' not found.">>, <<>>)>>)
  ELSE counts_chart("plot_academic_year_distribution",
                    "3. Distribution of Academic Years", df, year_col, TRUE)

\* the histogram of a column that was found
histogram_of(by, title, g) ==
  IF g.exc # "none" THEN Raise(g.exc)
  ELSE Out(<<El(by, "plotly_chart", <<title>>, dropna(g.col.cells))>>)

\* px.histogram(df.dropna(subset=[h]), x=h)
histogram(by, title, df, h) == histogram_of(by, title, getitem(df, h))

RECURSIVE run_blocks(_)
\* statements in sequence: the first exception ends the sequence
run_blocks(blocks) ==
  IF blocks = <<>> THEN Out(<<>>)
  ELSE IF Head(blocks).exc # "none" THEN Head(blocks)
  ELSE LET rest == run_blocks(Tail(blocks)) IN
       [els |-> Head(blocks).els \o rest.els, exc |-> rest.exc]

plot_gpa_histograms(df) ==
  LET ssc_col == COLUMNS["SSC_GPA"]
      hsc_col == COLUMNS["HSC_GPA"] IN
  IF ssc_col \notin DOMAIN df \/ hsc_col \notin DOMAIN df
  THEN Out(<<El("plot_gpa_histograms", "warning",
                <<"Columns '", ssc_col, "' or '", hsc_col, "' not found for GPA plots.">>,
                <<>>)>>)
  ELSE run_blocks(<<
         Out(<<El("plot_gpa_histograms", "subheader", <<"4a. S.S.C (GPA) Distribution">>, <<>>)>>),
         histogram("plot_gpa_histograms", "S.S.C (GPA)", df, ssc_col),
         Out(<<El("plot_gpa_histograms", "subheader", <<"4b. H.S.C (GPA) Distribution">>, <<>>)>>),
         histogram("plot_gpa_histograms", "H.S.C (GPA)", df, hsc_col)>>)

plot_coaching_attendance(df) ==
  LET coaching_col == COLUMNS["COACHING"] IN
  IF coaching_col \notin DOMAIN df
  THEN Out(<<El("plot_coaching_attendance", "warning",
                <<"Column '", coaching_col, "' not found.">>, <<>>)>>)
  ELSE counts_chart("plot_coaching_attendance",
                    "5. Distribution of Coaching Center Attendance",
                    df, coaching_col, FALSE)

plot_hsc_medium(df) ==
  LET medium_col == COLUMNS["HSC_MEDIUM"] IN
  IF medium_col \notin DOMAIN df
  THEN Out(<<El("plot_hsc_medium", "warning",
                <<"Column '", medium_col, "' not found.">>, <<>>)>>)
  ELSE counts_chart("plot_hsc_medium", "6. Distribution of H.S.C Study Mediums",
                    df, medium_col, FALSE)

\* the four survey columns, in order
exp_cols ==
  <<COLUMNS["EXPECTATION_RESOURCE"], COLUMNS["EXPECTATION_ENVIRONMENT"],
    COLUMNS["EXPECTATION_MET"], COLUMNS["BEST_ASPECTS"]>>

\* col.split('[')[1].replace(']', ''): the question inside the brackets
clean_title(col) ==
  CASE col = COLUMNS["EXPECTATION_RESOURCE"] ->
         "What was your expectation about the University as related to quality of resources?"
    [] col = COLUMNS["EXPECTATION_ENVIRONMENT"] ->
         "What was your expectation about the University as related to quality of learning environment?"
    [] col = COLUMNS["EXPECTATION_MET"] -> "To what extent your expectation was met?"
    [] col = COLUMNS["BEST_ASPECTS"] -> "What are the best aspects of the program?"

\* the chart of a survey column that was found
expectation_chart_of(col, g) ==
  IF g.exc # "none" THEN Raise(g.exc)
  ELSE Out(<<El("plot_expectation_ratings", "plotly_chart", <<clean_title(col)>>,
                sort_index(value_counts(astype_str(g.col).cells)))>>)

\* the chart of one survey column: counts of the string forms, by label
expectation_chart(df, col) == expectation_chart_of(col, getitem(df, col))

\* a loop that ends at the first absent column
RECURSIVE expectation_loop_return(_, _)
expectation_loop_return(df, i) ==
  IF i > Len(exp_cols) THEN Out(<<>>)
  ELSE IF exp_cols[i] \notin DOMAIN df
       THEN Out(<<El("plot_expectation_ratings", "warning",
                     <<"Column '", exp_cols[i], "' not found for expectation plot.">>,
                     <<>>)>>)
       ELSE run_blocks(<<expectation_chart(df, exp_cols[i]),
                         expectation_loop_return(df, i + 1)>>)

\* lines 266-284: the loop from its i-th column on
RECURSIVE expectation_loop(_, _)
expectation_loop(df, i) ==
  IF i > Len(exp_cols) THEN Out(<<>>)
  ELSE IF exp_cols[i] \notin DOMAIN df
       THEN run_blocks(<<
              Out(<<El("plot_expectation_ratings", "warning",
                       <<"Column '", exp_cols[i], "' not found for expectation plot.">>,
                       <<>>)>>),
              expectation_loop(df, i + 1)>>)
       ELSE run_blocks(<<expectation_chart(df, exp_cols[i]),
                         expectation_loop(df, i + 1)>>)

plot_expectation_ratings(df) ==
  run_blocks(<<
    Out(<<El("plot_expectation_ratings", "subheader",
             <<"7. University Expectation and Satisfaction Ratings">>, <<>>)>>),
    expectation_loop(df, 1)>>)

(* ------------------------------------------------ the loaders            *)
Revs == {"rev1", "rev2"}

\* pd.read_csv(data_url, encoding='latin1') against the remote resources:
\* the parsed table, or the exception of the fetch or of the parse
read_csv(data_url, rem) ==
  IF rem[data_url].status = "ok"
  THEN [exc |-> "none", df |-> rem[data_url].table]
  ELSE [exc |-> rem[data_url].status, df |-> EmptyDataFrame]

\* the two outcomes of the try of revision 1 (load: the raw table read and
\* the exception met, for the record of the last load)
load_data_rev1_of(r) ==
  IF r.exc = "none"
  THEN [value |-> r.df, msgs |-> <<>>, exc |-> "none", load |-> r]
  ELSE [value |-> EmptyDataFrame,
        msgs |-> <<El("load_data", "error", <<"Error loading data: ", r.exc>>, <<>>)>>,
        exc |-> "none", load |-> r]

\* revision 1, lines 15-23
load_data_rev1(data_url, rem) == load_data_rev1_of(read_csv(data_url, rem))

\* line 107 on: the table that was read, after its cleaning
try_cleaned(raw, c) == [exc |-> c.exc, df |-> c.df, raw |-> raw, read |-> TRUE]

\* lines 106-119 after the read
try_read(r) ==
  IF r.exc # "none"
  THEN [exc |-> r.exc, df |-> EmptyDataFrame, raw |-> r.df, read |-> FALSE]
  ELSE try_cleaned(r.df, clean(r.df))

\* lines 106-119, the body of the try: the table read and cleaned, or the
\* first exception of the fetch, the parse or the cleaning
try_body(data_url, rem) == try_read(read_csv(data_url, rem))

\* the messages of load_data, as st.cache_data records them
attempt(data_url) ==
  El("load_data", "info", <<"Attempting to load data from: ", data_url>>, <<>>)
success == El("load_data", "success", <<"Data loaded successfully!">>, <<>>)
error(e) ==
  El("load_data", "error",
     <<"Error loading data. Please check the URL and file format. Error: ", e>>, <<>>)

\* a loader without the except: the failure leaves the function
load_data_reraise(data_url, r) ==
  IF r.exc = "none"
  THEN [value |-> r.df, msgs |-> <<attempt(data_url), success>>, exc |-> "none",
        load |-> [exc |-> "none", df |-> r.raw]]
  ELSE [value |-> EmptyDataFrame,
        msgs |-> IF r.read THEN <<attempt(data_url), success>> ELSE <<attempt(data_url)>>,
        exc |-> r.exc, load |-> [exc |-> r.exc, df |-> r.raw]]

\* lines 104-124 around the body of the try: return on success, and the
\* except branch
load_data_of(data_url, r) ==
  IF r.exc = "none"
  THEN [value |-> r.df, msgs |-> <<attempt(data_url), success>>, exc |-> "none",
        load |-> [exc |-> "none", df |-> r.raw]]
  ELSE [value |-> EmptyDataFrame,
        msgs |-> IF r.read THEN <<attempt(data_url), success, error(r.exc)>>
                 ELSE <<attempt(data_url), error(r.exc)>>,
        exc |-> "none", load |-> [exc |-> r.exc, df |-> r.raw]]

\* revision 2, lines 102-124
load_data(data_url, rem) == load_data_of(data_url, try_body(data_url, rem))

\* a lookup that never finds the key
cache_lookup_miss(c, data_url) == FALSE

\* st.cache_data: whether the call is served from the cache
cache_lookup(c, data_url) == data_url \in DOMAIN c

\* a miss: what the body returned goes to the caller and, unless the body
\* raised, into the store
cache_store(c, data_url, b) ==
  [value |-> b.value, msgs |-> b.msgs, exc |-> b.exc, hit |-> FALSE,
   cache |-> IF b.exc = "none"
             THEN [u \in DOMAIN c \cup {data_url} |->
                     IF u = data_url THEN [value |-> b.value, msgs |-> b.msgs]
                     ELSE c[u]]
             ELSE c,
   load |-> b.load]

\* @st.cache_data around a loader: a hit returns the stored value and replays
\* the stored messages; a miss runs the body and stores what it returned
cache_data(rev, data_url, c, rem) ==
  IF cache_lookup(c, data_url)
  THEN [value |-> c[data_url].value, msgs |-> c[data_url].msgs, exc |-> "none",
        hit |-> TRUE, cache |-> c, load |-> [exc |-> "none", df |-> EmptyDataFrame]]
  ELSE cache_store(c, data_url,
                   IF rev = "rev1" THEN load_data_rev1(data_url, rem)
                   ELSE load_data(data_url, rem))

(* ------------------------------------------------ the render passes      *)
\* revision 1, lines 9-61: the elements after the loader's
module_rev1_body(law_df_) ==
  IF ~IsEmpty(law_df_)
  THEN run_blocks(<<
         Out(<<El("module", "subheader", <<"Data Preview (First 5 Rows)">>, <<>>),
               El("module", "dataframe", <<>>, <<head(law_df_, 5)>>)>>),
         IF "Gender" \in DOMAIN law_df_
         THEN run_blocks(<<
                Out(<<El("module", "subheader", <<"Distribution of Gender in Law Faculty">>, <<>>)>>),
                counts_chart("module", "Distribution of Gender in Law Faculty",
                             law_df_, "Gender", FALSE)>>)
         ELSE Out(<<El("module", "warning",
                       <<"The DataFrame does not contain a 'Gender' column.">>, <<>>)>>)>>)
  ELSE Out(<<El("module", "info",
                <<"Could not load the Law Faculty data. Please check the URL and file format.">>,
                <<>>)>>)

\* revision 2, lines 299-331: main after the emptiness test
main_body(law_df_) ==
  run_blocks(<<
    Out(<<El("main", "subheader", <<"Data Preview">>, <<>>),
          El("main", "dataframe", <<>>, <<head(law_df_, 5)>>),
          El("main", "markdown", <<"---">>, <<>>),
          El("main", "header", <<"Key Faculty Visualizations">>, <<>>),
          El("main", "subheader", <<"Faculty Demographics and Experience">>, <<>>)>>),
    plot_gender_distribution(law_df_),
    plot_rank_distribution(law_df_),
    Out(<<El("main", "markdown", <<"---">>, <<>>),
          El("main", "subheader", <<"Academic Background">>, <<>>)>>),
    plot_academic_year_distribution(law_df_),
    plot_gpa_histograms(law_df_),
    plot_coaching_attendance(law_df_),
    plot_hsc_medium(law_df_),
    Out(<<El("main", "markdown", <<"---">>, <<>>)>>),
    plot_expectation_ratings(law_df_)>>)

(* ------------------------------------------------------------- state     *)
VARIABLES
  remote,    \* URL -> [status, table]: what a fetch of the URL meets now
  cache,     \* revision -> the st.cache_data store of its load_data
  fetches,   \* revision -> read_csv calls since its store was last cleared
  first,     \* revision -> the Dataset its first call since the clearing returned
  lastload,  \* revision -> its most recent load: the raw table, the exception met
  law_df,    \* the Dataset the last render pass got from the loader
  page,      \* the elements of the last render pass, in order
  exc,       \* the exception that left the last render pass, or "none"
  rendered,  \* the revision of the last render pass, or "none"
  hit        \* whether the last render pass was served from the cache

vars == <<remote, cache, fetches, first, lastload, law_df, page, exc, rendered, hit>>

\* the elements of a pass from the loader's on (stops: st.stop() on an empty
\* Dataset, before any further element)
page_after_load(rev, stops, ld) ==
  IF ld.exc # "none" THEN [els |-> ld.msgs, exc |-> ld.exc]
  ELSE IF stops /\ IsEmpty(ld.value) THEN Out(ld.msgs)
  ELSE run_blocks(<<Out(ld.msgs),
                    IF rev = "rev1" THEN module_rev1_body(ld.value)
                    ELSE main_body(ld.value)>>)

pass_result(pre, ld, rest) == [page |-> pre \o rest.els, exc |-> rest.exc, ld |-> ld]

pass_of(rev, pre, stops, ld) == pass_result(pre, ld, page_after_load(rev, stops, ld))

\* one render pass of a revision: its loader call, then its page
render_pass(rev, pre, stops, c, rem) ==
  pass_of(rev, pre, stops, cache_data(rev, URL, c, rem))

\* revision 1: the script of lines 9-61
module_rev1 ==
  \E p \in {render_pass("rev1",
              <<El("module", "title", <<"Law Faculty Gender Distribution Analysis">>, <<>>)>>,
              FALSE, cache["rev1"], remote)} :
  /\ page' = p.page
  /\ exc' = p.exc
  /\ law_df' = p.ld.value
  /\ rendered' = "rev1"
  /\ hit' = p.ld.hit
  /\ cache' = [cache EXCEPT !["rev1"] = p.ld.cache]
  /\ fetches' = [fetches EXCEPT !["rev1"] = IF p.ld.hit THEN @ ELSE @ + 1]
  /\ first' = [first EXCEPT !["rev1"] =
                 IF @.set \/ p.ld.exc # "none" THEN @ ELSE [set |-> TRUE, df |-> p.ld.value]]
  /\ lastload' = [lastload EXCEPT !["rev1"] = IF p.ld.hit THEN @ ELSE p.ld.load]
  /\ UNCHANGED remote

\* revision 2: main(), lines 289-331
main ==
  \E p \in {render_pass("rev2",
              <<El("main", "title", <<"Law Faculty Data Analysis Dashboard">>, <<>>),
                El("main", "markdown", <<"---">>, <<>>)>>,
              TRUE, cache["rev2"], remote)} :
  /\ page' = p.page
  /\ exc' = p.exc
  /\ law_df' = p.ld.value
  /\ rendered' = "rev2"
  /\ hit' = p.ld.hit
  /\ cache' = [cache EXCEPT !["rev2"] = p.ld.cache]
  /\ fetches' = [fetches EXCEPT !["rev2"] = IF p.ld.hit THEN @ ELSE @ + 1]
  /\ first' = [first EXCEPT !["rev2"] =
                 IF @.set \/ p.ld.exc # "none" THEN @ ELSE [set |-> TRUE, df |-> p.ld.value]]
  /\ lastload' = [lastload EXCEPT !["rev2"] = IF p.ld.hit THEN @ ELSE p.ld.load]
  /\ UNCHANGED remote

(* ------------------------------------------------------------ inputs     *)
\* the characters of a raw cell: a blank, a digit, a letter
Chars == {" ", "4", "x"}

\* the texts of 1..n characters
Strings(n) == UNION {[1..k -> Chars] : k \in 1..n}

\* every raw cell of an object column: a text, or a missing value
WideCells == {StrCell(s) : s \in Strings(MaxLen)} \cup {NaN}

\* object columns of NRowsWide arbitrary cells and one cell that is a word
\* (read_csv types a column object when some cell is no number)
WideColumns ==
  {[dtype |-> "object", cells |-> w \o <<StrCell(<<"x">>)>>] :
     w \in [1..NRowsWide -> WideCells]}

ObjectPalette == {StrCell(<<"x">>), StrCell(<<" ", "x">>), StrCell(<<"4">>), NaN}
NumericPalette == {NumCell(4), NumCell(44), NaN}

\* columns of NRows cells as read_csv types them: object with some word in
\* it, int64 of numbers, float64 of numbers and missing values (some number
\* in either)
PaletteColumns ==
  {[dtype |-> "object", cells |-> w] :
     w \in {v \in [1..NRows -> ObjectPalette] :
              \E i \in 1..NRows : v[i].kind = "str" /\ \E j \in DOMAIN v[i].s : v[i].s[j] = "x"}}
  \cup {[dtype |-> numeric_dtype(w), cells |-> w] :
          w \in {v \in [1..NRows -> NumericPalette] : \E i \in 1..NRows : v[i].kind = "num"}}

\* a table whose columns all hold the same cells
Table(hs, col) == [h \in hs |-> col]

SampleObject ==
  [dtype |-> "object",
   cells |-> <<StrCell(<<" ", "x">>), StrCell(<<"4">>), NaN, StrCell(<<"x">>), StrCell(<<" ">>)>>]
SampleFloat == [dtype |-> "float64", cells |-> <<NumCell(4), NaN, NumCell(4)>>]
SampleNoRows == [dtype |-> "object", cells |-> <<>>]
\* a column of booleans with a missing value, which read_csv types object
SampleBool == [dtype |-> "object", cells |-> <<BoolCell(TRUE), NaN, BoolCell(FALSE)>>]

\* every registry column present, and a table with three of them
HeaderSamples ==
  {Headers,
   {"Unnamed: 0", COLUMNS["RANK"], COLUMNS["HSC_GPA"], COLUMNS["BEST_ASPECTS"]}}

\* the headers a chart of revision 2 reads
ChartHeaders ==
  {COLUMNS[k] : k \in Keys \ {"DEPARTMENT", "EXPERIENCE"}}

\* the tables of the data specification: every set of chart headers (beside
\* the columns no chart reads) over the sample columns, and the sample
\* header sets over every column
DataTables ==
  {Table(hs \cup {"Unnamed: 0", COLUMNS["DEPARTMENT"], COLUMNS["EXPERIENCE"]}, c) :
     hs \in SUBSET ChartHeaders, c \in {SampleObject, SampleFloat}}
  \cup {Table(hs, c) : hs \in HeaderSamples,
                        c \in WideColumns \cup PaletteColumns \cup {SampleBool}}

\* the remote resources of the session specification
SessionRemotes ==
  {[status |-> "ok", table |-> Table(Headers, SampleObject)],
   [status |-> "ok", table |-> Table(Headers \ {COLUMNS["GENDER"], COLUMNS["SSC_GPA"]}, SampleFloat)],
   [status |-> "ok", table |-> Table(Headers, SampleNoRows)],
   [status |-> "ok", table |-> Table(Headers, SampleBool)],
   [status |-> "URLError", table |-> EmptyDataFrame],
   [status |-> "ParserError", table |-> EmptyDataFrame]}

(* ------------------------------------------------------ specifications   *)
InitRest ==
  /\ cache = [r \in Revs |-> <<>>]
  /\ fetches = [r \in Revs |-> 0]
  /\ first = [r \in Revs |-> [set |-> FALSE, df |-> EmptyDataFrame]]
  /\ lastload = [r \in Revs |-> [exc |-> "none", df |-> EmptyDataFrame]]
  /\ law_df = EmptyDataFrame
  /\ page = <<>>
  /\ exc = "none"
  /\ rendered = "none"
  /\ hit = FALSE

Init ==
  /\ remote \in [{URL} -> SessionRemotes]
  /\ InitRest

\* the remote file changes, or the URL becomes unreachable or reachable
RemoteChange ==
  /\ \E r \in SessionRemotes :
       /\ r # remote[URL]
       /\ remote' = [remote EXCEPT ![URL] = r]
  /\ UNCHANGED <<cache, fetches, first, lastload, law_df, page, exc, rendered, hit>>

\* the cache is cleared from outside (Streamlit's "Clear cache")
ClearCache ==
  /\ \E r \in Revs : cache[r] # <<>>
  /\ cache' = [r \in Revs |-> <<>>]
  /\ fetches' = [r \in Revs |-> 0]
  /\ first' = [r \in Revs |-> [set |-> FALSE, df |-> EmptyDataFrame]]
  /\ UNCHANGED <<remote, lastload, law_df, page, exc, rendered, hit>>

Next == main \/ module_rev1 \/ RemoteChange \/ ClearCache

\* the session: render passes of either revision against a changing remote
Spec == Init /\ [][Next]_vars

InitData ==
  /\ remote \in [{URL} -> {[status |-> "ok", table |-> t] : t \in DataTables}]
  /\ InitRest

NextData == main \/ module_rev1

\* the data pipeline: render passes over every table of DataTables
SpecData == InitData /\ [][NextData]_vars

(* ------------------------------------------------ reading the page       *)
Range(f) == {f[i] : i \in DOMAIN f}

\* the positions of the elements of one kind that one function emitted
Emitted(by, el) == {i \in DOMAIN page : page[i].by = by /\ page[i].el = el}

\* the positions of the notices: info, success, warning and error boxes
Notices == {i \in DOMAIN page : page[i].el \in {"info", "success", "warning", "error"}}

Charts == {i \in DOMAIN page : page[i].el = "plotly_chart"}
Previews == {i \in DOMAIN page : page[i].el = "dataframe"}

\* the chart with this title that this function drew is on the page
HasChart(by, title) ==
  \E i \in Emitted(by, "plotly_chart") : page[i].text = <<title>>

\* the warnings of this function that name this column
WarningsNaming(by, col) ==
  {i \in Emitted(by, "warning") : col \in Range(page[i].text)}

\* the loader of the revision met a failure in the load behind its last pass
LoadFailed(r) == rendered = r /\ lastload[r].exc # "none"

\* that failure was of the fetch (URL unreachable) or of the parse (content
\* malformed)
FetchFailed(r) == rendered = r /\ lastload[r].exc \in {"URLError", "ParserError"}

\* the last pass was revision 2's, over a file that was read and cleaned
Cleaned == rendered = "rev2" /\ lastload["rev2"].exc = "none"

\* the raw table behind the Dataset of the last pass of revision 2
Raw == lastload["rev2"].df

NumericHeaders == {COLUMNS[NumericKeys[i]] : i \in DOMAIN NumericKeys}

IsBlank(s) == \A j \in DOMAIN s : s[j] = " "

\* t is s without its leading and trailing blanks
IsTrimOf(t, s) ==
  /\ t # <<>>
  /\ t[1] # " "
  /\ t[Len(t)] # " "
  /\ \E a \in 0..Len(s) :
       /\ a + Len(t) <= Len(s)
       /\ SubSeq(s, a + 1, a + Len(t)) = t
       /\ \A j \in (1..a) \cup ((a + Len(t) + 1)..Len(s)) : s[j] = " "

\* s is a decimal numeral between blanks
Parsable(s) ==
  \E a \in 0..Len(s), b \in 1..Len(s) :
    /\ a < b
    /\ \A j \in 1..a : s[j] = " "
    /\ \A j \in (b + 1)..Len(s) : s[j] = " "
    /\ \A j \in (a + 1)..b : s[j] \in Digits

\* the cell the string cleaning owes for a raw cell
CleanedAsString(c, out) ==
  IF c.kind # "str" \/ IsBlank(c.s) THEN out = StrCell(Sentinel)
  ELSE out.kind = "str" /\ IsTrimOf(out.s, c.s)

\* the string columns among hs are cleaned cell by cell
StringColumnsCleaned(hs) ==
  \A h \in hs \cap DOMAIN Raw :
    Raw[h].dtype = "object" =>
      /\ law_df[h].dtype = "object"
      /\ \A i \in DOMAIN Raw[h].cells : CleanedAsString(Raw[h].cells[i], law_df[h].cells[i])

(* ------------------------------------------------------------- claims    *)

\* C1: load_data never raises past its boundary: no exception leaves a
\* render pass, and when the fetch, the parse or the cleaning failed the
\* loader returned the empty table and its error message is on the page.
C1_LoaderNeverRaises ==
  /\ exc = "none"
  /\ \A r \in Revs :
       LoadFailed(r) =>
         /\ law_df = EmptyDataFrame
         /\ Emitted("load_data", "error") # {}

C1_Witness ==
  /\ LoadFailed("rev2")
  /\ lastload["rev2"].exc = "AttributeError"
  /\ law_df = EmptyDataFrame
  /\ Emitted("load_data", "error") # {}

\* C2: between two clearings of the cache the remote file is read at most
\* once per loader, and every pass gets the Dataset the first call returned,
\* whatever the remote file has become.
C2_FetchedAtMostOnce ==
  \A r \in Revs :
    /\ fetches[r] <= 1
    /\ (rendered = r /\ first[r].set) => law_df = first[r].df

C2_Witness ==
  /\ rendered = "rev2"
  /\ hit
  /\ fetches["rev2"] = 1
  /\ remote[URL].status = "ok"
  /\ law_df # clean(remote[URL].table).df

\* C3: the cached entry of a URL is the table of a load that succeeded.
C3_CacheHoldsSuccessfulLoad ==
  \A r \in Revs : URL \in DOMAIN cache[r] => lastload[r].exc = "none"

\* C4 (as stated): after a failed load the pass has an empty table, no
\* preview, no chart and exactly one notice.
C4_ExactlyOneNotice ==
  \A r \in Revs :
    FetchFailed(r) =>
      /\ law_df = EmptyDataFrame
      /\ Previews = {}
      /\ Charts = {}
      /\ Cardinality(Notices) = 1

\* C4 (amended): after a failed load the pass has an empty table, no preview,
\* no chart and exactly two notices: the loader's error and one info (in
\* revision 2 the loader's own, main adding none; in revision 1 the script's).
C4_FailedLoadPage ==
  \A r \in Revs :
    FetchFailed(r) =>
      /\ law_df = EmptyDataFrame
      /\ Previews = {}
      /\ Charts = {}
      /\ Cardinality(Notices) = 2
      /\ Cardinality(Emitted("load_data", "error")) = 1
      /\ Cardinality(Emitted(IF r = "rev2" THEN "load_data" ELSE "module", "info")) = 1

C4_Witness ==
  /\ FetchFailed("rev2")
  /\ lastload["rev2"].exc = "URLError"
  /\ Cardinality(Notices) = 2
  /\ Charts = {}

\* the function that draws the gender chart of a revision
GenderBy(r) == IF r = "rev1" THEN "module" ELSE "plot_gender_distribution"

\* the warning a revision shows for a missing gender column names it
GenderWarnings(r) ==
  IF r = "rev1"
  THEN {i \in Emitted("module", "warning") :
          page[i].text = <<"The DataFrame does not contain a 'Gender' column.">>}
  ELSE WarningsNaming("plot_gender_distribution", COLUMNS["GENDER"])

\* C5: over a non-empty table without the gender column the gender chart is
\* not drawn, one warning naming the column stands in its place, no
\* exception leaves the pass, and revision 2 goes on to the rank chart.
C5_MissingGenderSkipped ==
  \A r \in Revs :
    (rendered = r /\ ~IsEmpty(law_df) /\ COLUMNS["GENDER"] \notin DOMAIN law_df) =>
      /\ exc = "none"
      /\ Emitted(GenderBy(r), "plotly_chart") = {}
      /\ Cardinality(GenderWarnings(r)) = 1
      /\ r = "rev2" =>
           \E i \in GenderWarnings(r), j \in DOMAIN page :
             j > i /\ page[j].by = "plot_rank_distribution"

C5_Witness ==
  /\ rendered = "rev2"
  /\ ~IsEmpty(law_df)
  /\ COLUMNS["GENDER"] \notin DOMAIN law_df
  /\ COLUMNS["RANK"] \in DOMAIN law_df
  /\ GenderWarnings("rev2") # {}
  /\ HasChart("plot_rank_distribution", "2. Count of Faculty by Academic Rank")

\* C6 (as stated): every string-typed registry column present, the two GPA
\* columns and the experience column included, holds after the cleaning step
\* the sentinel for a blank or missing cell and the trimmed text otherwise.
C6_EveryStringColumnCleaned ==
  Cleaned => StringColumnsCleaned(Headers)

\* C6 (amended): the same for every string-typed registry column other than
\* the three designated numeric columns.
C6_StringColumnsCleaned ==
  Cleaned => StringColumnsCleaned(Headers \ NumericHeaders)

C6_Witness ==
  /\ Cleaned
  /\ COLUMNS["GENDER"] \in DOMAIN Raw
  /\ Raw[COLUMNS["GENDER"]].dtype = "object"
  /\ \E i \in DOMAIN Raw[COLUMNS["GENDER"]].cells :
       LET c == Raw[COLUMNS["GENDER"]].cells[i] IN
       /\ c.kind = "str" /\ IsBlank(c.s)
       /\ law_df[COLUMNS["GENDER"]].cells[i] = StrCell(Sentinel)
  /\ \E i \in DOMAIN Raw[COLUMNS["GENDER"]].cells :
       LET c == Raw[COLUMNS["GENDER"]].cells[i] IN
       /\ c.kind = "str" /\ ~IsBlank(c.s)
       /\ law_df[COLUMNS["GENDER"]].cells[i] # c

\* C7: the cleaning pass is idempotent: applied to the Dataset it produced
\* it gives that Dataset back, value for value and dtype for dtype.
C7_CleanIdempotent ==
  Cleaned => clean(law_df) = [exc |-> "none", df |-> law_df]

C7_Witness ==
  /\ Cleaned
  /\ ~IsEmpty(law_df)
  /\ law_df # Raw
  /\ \E h \in NumericHeaders \cap DOMAIN Raw : Raw[h].dtype = "object"
  /\ clean(law_df).df = law_df

\* the cell the numeric coercion owes for a raw cell
CoercedAsNumber(c, out) ==
  CASE c.kind = "num" -> out = c
    [] c.kind = "nan" -> out = NaN
    [] c.kind = "str" ->
         IF Parsable(c.s)
         THEN out.kind = "num" /\ IsTrimOf(num_digits(out.n), c.s)
         ELSE out = NaN

\* C8: each designated numeric column present is numeric after cleaning:
\* a cell that does not parse is missing (not zero, not the sentinel), a
\* cell that parses is its number, and the load of a table that was read
\* and whose strings were cleaned does not fail.
C8_NumericCoercion ==
  (rendered = "rev2" /\ ~FetchFailed("rev2") /\ clean_strings(Raw).exc = "none") =>
    /\ lastload["rev2"].exc = "none"
    /\ exc = "none"
    /\ Emitted("load_data", "error") = {}
    /\ \A h \in NumericHeaders \cap DOMAIN Raw :
         /\ law_df[h].dtype \in {"int64", "float64"}
         /\ \A i \in DOMAIN Raw[h].cells :
              CoercedAsNumber(Raw[h].cells[i], law_df[h].cells[i])

C8_Witness ==
  /\ Cleaned
  /\ \E h \in NumericHeaders \cap DOMAIN Raw :
       /\ Raw[h].dtype = "object"
       /\ \E i, j \in DOMAIN Raw[h].cells :
            /\ Raw[h].cells[i].kind = "str" /\ Parsable(Raw[h].cells[i].s)
            /\ law_df[h].cells[i].kind = "num"
            /\ Raw[h].cells[j].kind = "str" /\ ~Parsable(Raw[h].cells[j].s)
            /\ law_df[h].cells[j] = NaN

NotMissing(c) == c.kind # "nan"

RECURSIVE SumCounts(_)
SumCounts(rows) ==
  IF rows = <<>> THEN 0 ELSE Head(rows).count + SumCounts(Tail(rows))

\* rows is the frequency table of the values: one row per distinct value,
\* each with the number of its occurrences, the counts summing to them all
IsFrequencyTable(rows, values) ==
  /\ \A i, j \in DOMAIN rows : rows[i].label = rows[j].label => i = j
  /\ {rows[i].label : i \in DOMAIN rows} = Range(values)
  /\ \A i \in DOMAIN rows :
       rows[i].count = Cardinality({k \in DOMAIN values : values[k] = rows[i].label})
  /\ SumCounts(rows) = Len(values)

\* the charts of value counts of revision 2 over the raw values
CountCharts ==
  {<<"plot_gender_distribution", COLUMNS["GENDER"]>>,
   <<"plot_rank_distribution", COLUMNS["RANK"]>>,
   <<"plot_academic_year_distribution", COLUMNS["ACADEMIC_YEAR"]>>,
   <<"plot_coaching_attendance", COLUMNS["COACHING"]>>,
   <<"plot_hsc_medium", COLUMNS["HSC_MEDIUM"]>>}

\* the string forms of the cells of a column
StringForms(col) == astype_str(col).cells

\* the string forms of the cells of a column that are not missing
StringFormsOfPresent(col) ==
  LET present == SelectSeq(col.cells, NotMissing) IN
  [i \in DOMAIN present |-> cell_str(present[i], col.dtype)]

\* every chart of value counts over the raw values of its column counts the
\* values that are not missing
RawCountsRight ==
  /\ rendered = "rev1" =>
       \A i \in Emitted("module", "plotly_chart") :
         IsFrequencyTable(page[i].data, SelectSeq(law_df["Gender"].cells, NotMissing))
  /\ rendered = "rev2" =>
       \A cc \in CountCharts : \A i \in Emitted(cc[1], "plotly_chart") :
         IsFrequencyTable(page[i].data, SelectSeq(law_df[cc[2]].cells, NotMissing))

\* C9 (as stated): every chart's summary table has one row per distinct
\* non-missing value with the number of rows holding it, the counts summing
\* to the rows that are not missing; the survey charts included.
C9_CountsOfNonMissing ==
  /\ RawCountsRight
  /\ rendered = "rev2" =>
       \A k \in DOMAIN exp_cols :
         \A i \in Emitted("plot_expectation_ratings", "plotly_chart") :
           page[i].text = <<clean_title(exp_cols[k])>> =>
             IsFrequencyTable(page[i].data, StringFormsOfPresent(law_df[exp_cols[k]]))

\* C9 (amended): the same for the charts over raw values; a survey chart
\* counts the string form of every cell, a missing cell of a numeric column
\* under the label 'nan', so that its counts sum to all the rows.
C9_FrequencyTables ==
  /\ RawCountsRight
  /\ rendered = "rev2" =>
       \A k \in DOMAIN exp_cols :
         \A i \in Emitted("plot_expectation_ratings", "plotly_chart") :
           page[i].text = <<clean_title(exp_cols[k])>> =>
             /\ IsFrequencyTable(page[i].data, StringForms(law_df[exp_cols[k]]))
             /\ SumCounts(page[i].data) = NumRows(law_df)

C9_Witness ==
  /\ rendered = "rev2"
  /\ \E i \in Emitted("plot_gender_distribution", "plotly_chart") :
       /\ Len(page[i].data) >= 2
       /\ \E j \in DOMAIN page[i].data : page[i].data[j].count >= 2
       /\ SumCounts(page[i].data) = NumRows(law_df)
  /\ \E i \in Emitted("plot_expectation_ratings", "plotly_chart") :
       Len(page[i].data) >= 2

\* the charts of revision 2 with the one column each reads
ChartOf ==
  {<<"plot_gender_distribution", "1. Distribution of Faculty Gender", COLUMNS["GENDER"]>>,
   <<"plot_rank_distribution", "2. Count of Faculty by Academic Rank", COLUMNS["RANK"]>>,
   <<"plot_academic_year_distribution", "3. Distribution of Academic Years", COLUMNS["ACADEMIC_YEAR"]>>,
   <<"plot_coaching_attendance", "5. Distribution of Coaching Center Attendance", COLUMNS["COACHING"]>>,
   <<"plot_hsc_medium", "6. Distribution of H.S.C Study Mediums", COLUMNS["HSC_MEDIUM"]>>}
  \cup {<<"plot_expectation_ratings", clean_title(exp_cols[k]), exp_cols[k]>> : k \in DOMAIN exp_cols}

\* the two histograms with the column each reads
HistogramOf ==
  {<<"plot_gpa_histograms", "S.S.C (GPA)", COLUMNS["SSC_GPA"]>>,
   <<"plot_gpa_histograms", "H.S.C (GPA)", COLUMNS["HSC_GPA"]>>}

\* a chart is drawn when its own column is present, and replaced by one
\* warning naming the column when it is absent
RecoveredPerChart(charts) ==
  \A c \in charts :
    IF c[3] \in DOMAIN law_df
    THEN HasChart(c[1], c[2]) /\ WarningsNaming(c[1], c[3]) = {}
    ELSE ~HasChart(c[1], c[2]) /\ Cardinality(WarningsNaming(c[1], c[3])) = 1

\* C10 (as stated): over a non-empty Dataset each chart depends on its own
\* column alone, each of the two GPA histograms and each of the four survey
\* charts taken individually.
C10_EachChartAlone ==
  (rendered = "rev2" /\ ~IsEmpty(law_df)) =>
    /\ exc = "none"
    /\ RecoveredPerChart(ChartOf \cup HistogramOf)

\* C10 (amended): each chart function recovers alone; the two GPA histograms
\* are drawn together when both GPA columns are present, and are replaced
\* together by a single warning when either is absent.
C10_EachChartFunctionAlone ==
  (rendered = "rev2" /\ ~IsEmpty(law_df)) =>
    /\ exc = "none"
    /\ RecoveredPerChart(ChartOf)
    /\ IF \A c \in HistogramOf : c[3] \in DOMAIN law_df
       THEN /\ \A c \in HistogramOf : HasChart(c[1], c[2])
            /\ Emitted("plot_gpa_histograms", "warning") = {}
       ELSE /\ \A c \in HistogramOf : ~HasChart(c[1], c[2])
            /\ Cardinality(Emitted("plot_gpa_histograms", "warning")) = 1

C10_Witness ==
  /\ rendered = "rev2"
  /\ ~IsEmpty(law_df)
  /\ COLUMNS["SSC_GPA"] \in DOMAIN law_df
  /\ COLUMNS["HSC_GPA"] \notin DOMAIN law_df
  /\ COLUMNS["EXPECTATION_RESOURCE"] \notin DOMAIN law_df
  /\ COLUMNS["EXPECTATION_MET"] \in DOMAIN law_df
  /\ HasChart("plot_expectation_ratings", clean_title(COLUMNS["EXPECTATION_MET"]))
  /\ ~HasChart("plot_gpa_histograms", "S.S.C (GPA)")
  /\ Cardinality(Emitted("plot_gpa_histograms", "warning")) = 1

====
